---- MODULE Spec2Model ----
(***************************************************************************)
(* Model of src/app.py (SlideDeckAI): the LLM client with its fallbacks,   *)
(* the template-aware PowerPoint exporter and the UI event handlers that   *)
(* mutate the process-wide AppState.                                       *)
(*                                                                         *)
(* Text is a sequence of STRING tokens: user input is a sequence of        *)
(* one-character tokens, literals of the source are one token each.        *)
(***************************************************************************)
EXTENDS Integers, Sequences, FiniteSets, TLC

VARIABLES state,      \* the global AppState (_state)
          nEvents,    \* UI events delivered so far
          lastEvent,  \* the UI event whose handler ran last
          call        \* a direct call of a method: its arguments and result

vars == <<state, nEvents, lastEvent, call>>

-----------------------------------------------------------------------------
(* Bounds of the model *)

MaxInputLen == 2      \* length of a typed input string
MaxEvents == 5        \* UI events in one run
MaxReplyLen == 2      \* entries in a service reply array
MaxTopics == 2        \* slide topics handed to generate_slides
MaxSlides == 2        \* slide records handed to create_presentation
MaxTplSlides == 2     \* slides in the template file

-----------------------------------------------------------------------------
(* Python str operations used by the source *)

Min(a, b) == IF a < b THEN a ELSE b

SeqsUpTo(S, n) == UNION {[1..k -> S] : k \in 0..n}

\* str.isspace() for the characters the model types
Whitespace == {" ", "\t", "\n"}

RECURSIVE LStrip(_)
LStrip(s) == IF s # <<>> /\ Head(s) \in Whitespace THEN LStrip(Tail(s)) ELSE s

RECURSIVE RStrip(_)
RStrip(s) ==
  IF s # <<>> /\ s[Len(s)] \in Whitespace THEN RStrip(SubSeq(s, 1, Len(s) - 1)) ELSE s

\* str.strip()
Strip(s) == LStrip(RStrip(s))

\* s[:n]
Prefix(s, n) == SubSeq(s, 1, Min(n, Len(s)))

\* str.replace(old, new) for a one-character old
Replace(s, old, new) == [i \in 1..Len(s) |-> IF s[i] = old THEN new ELSE s[i]]

Digits == {"0", "1", "2", "3", "4", "5", "6", "7", "8", "9"}

DigitVal(c) ==
  CASE c = "0" -> 0 [] c = "1" -> 1 [] c = "2" -> 2 [] c = "3" -> 3 [] c = "4" -> 4
    [] c = "5" -> 5 [] c = "6" -> 6 [] c = "7" -> 7 [] c = "8" -> 8 [] c = "9" -> 9

\* the digits of an int literal: digit (_? digit)*
ValidDigits(b) ==
  /\ b # <<>>
  /\ \A i \in 1..Len(b) : b[i] \in Digits \cup {"_"}
  /\ b[1] # "_" /\ b[Len(b)] # "_"
  /\ \A i \in 1..(Len(b) - 1) : ~(b[i] = "_" /\ b[i + 1] = "_")

RECURSIVE DigitsVal(_, _)
DigitsVal(b, acc) ==
  IF b = <<>> THEN acc
  ELSE IF Head(b) = "_" THEN DigitsVal(Tail(b), acc)
  ELSE DigitsVal(Tail(b), 10 * acc + DigitVal(Head(b)))

\* int(s): [ok |-> FALSE] stands for ValueError
IntOf(s) ==
  LET t == Strip(s)
      signed == t # <<>> /\ Head(t) \in {"-", "+"}
      body == IF signed THEN Tail(t) ELSE t
  IN IF ValidDigits(body)
       THEN [ok |-> TRUE,
             val |-> IF signed /\ Head(t) = "-" THEN 0 - DigitsVal(body, 0)
                     ELSE DigitsVal(body, 0)]
       ELSE [ok |-> FALSE, val |-> 0]

HexVal(c) ==
  CASE c \in Digits -> DigitVal(c)
    [] c = "a" -> 10 [] c = "b" -> 11 [] c = "c" -> 12
    [] c = "d" -> 13 [] c = "e" -> 14 [] c = "f" -> 15

RECURSIVE LStripHash(_)
LStripHash(s) == IF s # <<>> /\ Head(s) = "#" THEN LStripHash(Tail(s)) ELSE s

\* PPTXExporter._hex_to_rgb
hex_to_rgb(hex_color) ==
  LET h == LStripHash(hex_color)
  IN [k \in 1..3 |-> 16 * HexVal(h[2 * k - 1]) + HexVal(h[2 * k])]

-----------------------------------------------------------------------------
(* Data model *)

BULLETED_LIST == "bulleted_list"
PARAGRAPH == "paragraph"

IMAGE_PLACEHOLDER ==
  "https://via.placeholder.com/400x300/cccccc/666666?text=Image+Placeholder"

SlideData(title, content) ==
  [title |-> title, content |-> content, image_placeholder |-> IMAGE_PLACEHOLDER]

SlideTopic(title, description, order) ==
  [title |-> title, description |-> description, order |-> order]

WHITE == <<"#", "f", "f", "f", "f", "f", "f">>
BLACK == <<"#", "0", "0", "0", "0", "0", "0">>
DARK_GRAY == <<"#", "3", "3", "3", "3", "3", "3">>
BLUE == <<"#", "1", "9", "7", "6", "d", "2">>

PresentationConfig ==
  [topic |-> <<>>, num_slides |-> 5, content_format |-> BULLETED_LIST,
   background_color |-> WHITE, text_color |-> BLACK,
   audience |-> "colleagues", tone |-> "professional", scene |-> "general_scene"]

None == [none |-> TRUE]

AppState ==
  [config |-> PresentationConfig, slides |-> <<>>, slide_topics |-> <<>>,
   is_generating |-> FALSE, is_generating_topics |-> FALSE,
   error_message |-> <<>>, generated_pptx |-> None,
   show_topic_breakdown |-> FALSE, uploaded_file_content |-> <<>>,
   download_filename |-> <<>>, download_ready |-> FALSE]

-----------------------------------------------------------------------------
(* The text-generation service, as seen by LLMClient: one request ends in  *)
(* an exception of the client library (network error, non-success status)  *)
(* or in a message content, which json.loads parses or rejects.            *)

BULLET == "[U+2022]"     \* the bullet character of the fallback content
CHECK_MARK == "[U+2705]" \* the leading marker of a success message

FailureKinds == {"network_error", "bad_status", "not_json"}

NoJson == [type |-> "scalar", items |-> <<>>]

Failures == {[kind |-> k, json |-> NoJson] : k \in FailureKinds}

\* an element of a reply array: an object with some of the requested keys, or
\* a value that is no object
NonObject ==
  [is_object |-> FALSE, has_title |-> FALSE, has_description |-> FALSE,
   has_order |-> FALSE, title |-> <<>>, description |-> <<>>, order |-> 0]

TopicEntries ==
  {NonObject} \cup
  {[is_object |-> TRUE, has_title |-> t # <<>>, has_description |-> d # <<>>,
    has_order |-> o # 0, title |-> t, description |-> d, order |-> o] :
      t \in {<<>>, <<"S1">>, <<"S2">>}, d \in {<<>>, <<"SD">>}, o \in {0, 7}}

\* json.loads results: an array, an empty object or string (iterates as
\* nothing), a non-empty object (iterates as its keys), a number or null
TopicReplies ==
  {[kind |-> "json", json |-> [type |-> "array", items |-> a]] :
      a \in SeqsUpTo(TopicEntries, MaxReplyLen)}
  \cup {[kind |-> "json", json |-> [type |-> ty, items |-> <<>>]] :
      ty \in {"empty_iterable", "nonempty_object", "scalar"}}

TopicResponses == Failures \cup TopicReplies

\* a plausible slip: the loop index used where i + 1 is meant
generate_mock_topics_zero_based(topic, num_slides) ==
  [i \in 1..num_slides |->
     SlideTopic(topic \o <<" - Topic ", ToString(i - 1)>>,
                <<"This slide will cover aspect ", ToString(i - 1), " of ">> \o topic,
                i - 1)]

\* LLMClient._generate_mock_topics
generate_mock_topics(topic, num_slides) ==
  [i \in 1..num_slides |->
     SlideTopic(topic \o <<" - Topic ", ToString(i)>>,
                <<"This slide will cover aspect ", ToString(i), " of ">> \o topic,
                i)]

\* topic_data["title"] raises on a value that is no object (TypeError) and on
\* an object without the key (KeyError)
EntryRaises(e) == ~e.is_object \/ ~e.has_title

\* a plausible slip: the outline is renumbered by position
TopicOfEntryRenumbered(e, i) ==
  SlideTopic(e.title,
             IF e.has_description THEN e.description ELSE <<>>,
             i)

\* the SlideTopic built from entry number i (1-based) of the reply
TopicOfEntry(e, i) ==
  SlideTopic(e.title,
             IF e.has_description THEN e.description ELSE <<>>,
             IF e.has_order THEN e.order ELSE i)

\* the try block of generate_slide_topics: [raised, value]
TryTopics(response) ==
  LET j == response.json
  IN IF response.kind # "json" THEN [raised |-> TRUE, value |-> <<>>]
     ELSE IF j.type \in {"scalar", "nonempty_object"}
       THEN [raised |-> TRUE, value |-> <<>>]
     ELSE IF \E i \in 1..Len(j.items) : EntryRaises(j.items[i])
       THEN [raised |-> TRUE, value |-> <<>>]
     ELSE [raised |-> FALSE,
           value |-> [i \in 1..Len(j.items) |-> TopicOfEntry(j.items[i], i)]]

\* a plausible slip: only client-library errors are caught
generate_slide_topics_narrow_except(topic, num_slides, response) ==
  LET t == TryTopics(response)
  IN IF t.raised /\ response.kind # "json"
       THEN [raised |-> FALSE, value |-> generate_mock_topics(topic, num_slides),
             requests |-> 1]
       ELSE [raised |-> t.raised, value |-> t.value, requests |-> 1]

\* LLMClient.generate_slide_topics: the try block, and the mock outline on
\* any exception
generate_slide_topics(topic, num_slides, response) ==
  LET t == TryTopics(response)
  IN IF t.raised
       THEN [raised |-> FALSE, value |-> generate_mock_topics(topic, num_slides),
             requests |-> 1]
       ELSE [raised |-> FALSE, value |-> t.value, requests |-> 1]

\* replies to a slide-content request
SlideReplies ==
  {[kind |-> "json", is_object |-> FALSE, has_title |-> FALSE,
    has_content |-> FALSE, title |-> <<>>, content |-> <<>>]}
  \cup {[kind |-> "json", is_object |-> TRUE, has_title |-> t # <<>>,
         has_content |-> c # <<>>, title |-> t, content |-> c] :
           t \in {<<>>, <<"ST">>}, c \in {<<>>, <<"SC1">>}}
  \cup {[kind |-> "json", is_object |-> TRUE, has_title |-> TRUE,
         has_content |-> TRUE, title |-> <<"ST">>, content |-> <<"SC2">>]}

SlideResponses ==
  {[kind |-> k, is_object |-> FALSE, has_title |-> FALSE, has_content |-> FALSE,
    title |-> <<>>, content |-> <<>>] : k \in FailureKinds}
  \cup SlideReplies

\* the try block of one loop iteration raises
SlideRaises(r) ==
  r.kind # "json" \/ ~r.is_object \/ ~r.has_title \/ ~r.has_content

\* a plausible slip: the two branches of the except block are exchanged
FallbackContentSwapped(topic, content_format) ==
  IF content_format # BULLETED_LIST
    THEN <<BULLET, " Key point 1 about ">> \o topic.title
         \o <<"\n", BULLET, " Important aspect to consider",
              "\n", BULLET, " Benefits and advantages",
              "\n", BULLET, " Future implications">>
    ELSE <<"This slide covers ">> \o topic.description
         \o <<". ", "We'll explore the key concepts and their practical applications in this context.">>

\* the mock content of the except block
FallbackContent(topic, content_format) ==
  IF content_format = BULLETED_LIST
    THEN <<BULLET, " Key point 1 about ">> \o topic.title
         \o <<"\n", BULLET, " Important aspect to consider",
              "\n", BULLET, " Benefits and advantages",
              "\n", BULLET, " Future implications">>
    ELSE <<"This slide covers ">> \o topic.description
         \o <<". ", "We'll explore the key concepts and their practical applications in this context.">>

\* one iteration of the loop of generate_slides
SlideFor(topic, content_format, r) ==
  IF SlideRaises(r)
    THEN SlideData(topic.title, FallbackContent(topic, content_format))
    ELSE SlideData(r.title, r.content)

\* a plausible slip: the first failing item ends the batch
RECURSIVE SlidesLoopAbort(_, _, _, _)
SlidesLoopAbort(slide_topics, content_format, responses, slides_data) ==
  IF slide_topics = <<>> \/ SlideRaises(Head(responses)) THEN slides_data
  ELSE SlidesLoopAbort(Tail(slide_topics), content_format, Tail(responses),
         Append(slides_data,
                SlideFor(Head(slide_topics), content_format, Head(responses))))

\* the for loop of generate_slides: appends one SlideData per topic
RECURSIVE SlidesLoop(_, _, _, _)
SlidesLoop(slide_topics, content_format, responses, slides_data) ==
  IF slide_topics = <<>> THEN slides_data
  ELSE SlidesLoop(Tail(slide_topics), content_format, Tail(responses),
         Append(slides_data,
                SlideFor(Head(slide_topics), content_format, Head(responses))))

\* LLMClient.generate_slides; responses[i] is the service's answer to the
\* request for slide_topics[i]
generate_slides(slide_topics, content_format, responses) ==
  [raised |-> FALSE,
   value |-> SlidesLoop(slide_topics, content_format, responses, <<>>),
   requests |-> Len(slide_topics)]

-----------------------------------------------------------------------------
(* PPTXExporter. A presentation is the slide list of its presentation part *)
(* (sldIdLst, the rIds in deck order), the part's slide relationships      *)
(* (rels), the slide each rId leads to, the slide layouts and the canvas.  *)
(* A placeholder set is two flags: a title placeholder, and a placeholder  *)
(* with idx 1 (the body).                                                  *)

EMU_PER_INCH == 914400

\* pptx.util.Inches of a length given in hundredths of an inch
Inches(hundredths) == (hundredths * EMU_PER_INCH) \div 100

TITLE_PT == 32
BODY_PT == 18

Layout(has_title, has_body) == [has_title |-> has_title, has_body |-> has_body]

Unset == [size |-> 0, bold |-> FALSE, rgb |-> <<>>]

\* slide number i of the template file, as authored
TemplateSlide(placeholders, i) ==
  [origin |-> "template", has_title |-> placeholders.has_title,
   has_body |-> placeholders.has_body,
   title |-> <<"template title ", ToString(i)>>, title_font |-> Unset,
   content |-> <<"template body ", ToString(i)>>, content_font |-> Unset,
   background |-> <<>>]

\* a slide made by add_slide from a layout: empty placeholders
LayoutSlide(layout) ==
  [origin |-> "layout", has_title |-> layout.has_title,
   has_body |-> layout.has_body,
   title |-> <<>>, title_font |-> Unset,
   content |-> <<>>, content_font |-> Unset,
   background |-> <<>>]

\* Presentation(): the library's default template, no slides, eleven layouts
\* (Title Slide, Title and Content, ..., Title Only, Blank, ...), 4:3 canvas
BlankPresentation ==
  [sldIdLst |-> <<>>, rels |-> {}, slide |-> <<>>,
   layouts |-> <<Layout(TRUE, TRUE), Layout(TRUE, TRUE), Layout(TRUE, TRUE),
                 Layout(TRUE, TRUE), Layout(TRUE, TRUE), Layout(TRUE, FALSE),
                 Layout(FALSE, FALSE), Layout(TRUE, TRUE), Layout(TRUE, TRUE),
                 Layout(TRUE, TRUE), Layout(TRUE, TRUE)>>,
   slide_width |-> Inches(1000), slide_height |-> Inches(750)]

\* Presentation(template_path) on a readable file
OpenTemplate(file) ==
  [sldIdLst |-> [i \in 1..Len(file.slides) |-> i],
   rels |-> 1..Len(file.slides),
   slide |-> [i \in 1..Len(file.slides) |-> TemplateSlide(file.slides[i], i)],
   layouts |-> file.layouts,
   slide_width |-> file.slide_width, slide_height |-> file.slide_height]

\* a plausible slip: an unreadable template is not caught
LoadTemplatePropagates(file) ==
  IF file.exists
    THEN IF file.readable THEN [raised |-> FALSE, prs |-> OpenTemplate(file)]
         ELSE [raised |-> TRUE, prs |-> BlankPresentation]
    ELSE [raised |-> FALSE, prs |-> BlankPresentation]

\* the try/except around the template: never raises
LoadTemplate(file) ==
  IF file.exists
    THEN IF file.readable THEN [raised |-> FALSE, prs |-> OpenTemplate(file)]
         ELSE [raised |-> FALSE, prs |-> BlankPresentation]
    ELSE [raised |-> FALSE, prs |-> BlankPresentation]

\* a plausible slip: the new sldId is put first in the slide list
AddSlideFront(prs, layout) ==
  LET rId == Len(prs.slide) + 1
  IN [prs EXCEPT !.sldIdLst = <<rId>> \o @, !.rels = @ \cup {rId},
                 !.slide = Append(@, LayoutSlide(layout))]

\* prs.slides.add_slide(layout): a new relationship and a new sldId at the end
AddSlide(prs, layout) ==
  LET rId == Len(prs.slide) + 1
  IN [prs EXCEPT !.sldIdLst = Append(@, rId), !.rels = @ \cup {rId},
                 !.slide = Append(@, LayoutSlide(layout))]

\* a plausible slip: the background is filled on every slide
UpdateSlideAlwaysFills(prs, config, rId, is_new, slide_data) ==
  LET s0 == prs.slide[rId]
      s1 == [s0 EXCEPT !.background = hex_to_rgb(config.background_color)]
      s2 == IF s1.has_title
              THEN [s1 EXCEPT !.title = slide_data.title,
                              !.title_font = [size |-> TITLE_PT, bold |-> TRUE,
                                              rgb |-> hex_to_rgb(config.text_color)]]
              ELSE s1
      s3 == IF s2.has_body
              THEN [s2 EXCEPT !.content = slide_data.content,
                              !.content_font = [size |-> BODY_PT, bold |-> FALSE,
                                                rgb |-> hex_to_rgb(config.text_color)]]
              ELSE s2
  IN [prs EXCEPT !.slide[rId] = s3]

\* a plausible slip: a slide without a body placeholder is skipped before
\* its title is written
UpdateSlideSkipsBare(prs, config, rId, is_new, slide_data) ==
  LET s0 == prs.slide[rId]
      s1 == IF is_new \/ config.background_color # WHITE
              THEN [s0 EXCEPT !.background = hex_to_rgb(config.background_color)]
              ELSE s0
      s3 == IF s1.has_body
              THEN [s1 EXCEPT !.title = IF s1.has_title THEN slide_data.title ELSE @,
                              !.title_font = IF s1.has_title
                                               THEN [size |-> TITLE_PT, bold |-> TRUE,
                                                     rgb |-> hex_to_rgb(config.text_color)]
                                               ELSE @,
                              !.content = slide_data.content,
                              !.content_font = [size |-> BODY_PT, bold |-> FALSE,
                                                rgb |-> hex_to_rgb(config.text_color)]]
              ELSE s1
  IN [prs EXCEPT !.slide[rId] = s3]

\* the body of the for loop for record number i (1-based) on slide rId
UpdateSlide(prs, config, rId, is_new, slide_data) ==
  LET s0 == prs.slide[rId]
      s1 == IF is_new \/ config.background_color # WHITE
              THEN [s0 EXCEPT !.background = hex_to_rgb(config.background_color)]
              ELSE s0
      s2 == IF s1.has_title
              THEN [s1 EXCEPT !.title = slide_data.title,
                              !.title_font = [size |-> TITLE_PT, bold |-> TRUE,
                                              rgb |-> hex_to_rgb(config.text_color)]]
              ELSE s1
      s3 == IF s2.has_body
              THEN [s2 EXCEPT !.content = slide_data.content,
                              !.content_font = [size |-> BODY_PT, bold |-> FALSE,
                                                rgb |-> hex_to_rgb(config.text_color)]]
              ELSE s2
  IN [prs EXCEPT !.slide[rId] = s3]

\* for i, slide_data in enumerate(slides), from record number i on;
\* prs.slide_layouts[1] raises IndexError when the template has one layout
RECURSIVE FillSlides(_, _, _, _, _)
FillSlides(prs, config, existing_slides, slides, i) ==
  IF i > Len(slides) THEN [raised |-> FALSE, prs |-> prs]
  ELSE IF i <= Len(existing_slides)
    THEN FillSlides(UpdateSlide(prs, config, existing_slides[i], FALSE, slides[i]),
                    config, existing_slides, slides, i + 1)
  ELSE IF Len(prs.layouts) < 2 THEN [raised |-> TRUE, prs |-> prs]
  ELSE LET added == AddSlide(prs, prs.layouts[2])
       IN FillSlides(UpdateSlide(added, config, Len(added.slide), TRUE, slides[i]),
                     config, existing_slides, slides, i + 1)

\* a plausible slip: the relationship is left in the package
DropRelNever(prs, rId) == prs

\* prs.part.drop_rel(rId): dropped when referenced fewer than twice
DropRel(prs, rId) ==
  IF Cardinality({j \in 1..Len(prs.sldIdLst) : prs.sldIdLst[j] = rId}) < 2
    THEN [prs EXCEPT !.rels = @ \ {rId}]
    ELSE prs

RemoveAt(seq, i) == SubSeq(seq, 1, i - 1) \o SubSeq(seq, i + 1, Len(seq))

\* a plausible slip: the range stops one short and leaves slide number n + 1
RECURSIVE RemoveExcessShort(_, _, _)
RemoveExcessShort(prs, i, n) ==
  IF i <= n + 1 THEN prs
  ELSE RemoveExcessShort(
         [DropRel(prs, prs.sldIdLst[i]) EXCEPT !.sldIdLst = RemoveAt(@, i)], i - 1, n)

\* for i in range(len(existing_slides) - 1, len(slides) - 1, -1), with i the
\* 1-based position: drops the relationship, then the sldId
RECURSIVE RemoveExcess(_, _, _)
RemoveExcess(prs, i, n) ==
  IF i <= n THEN prs
  ELSE RemoveExcess(
         [DropRel(prs, prs.sldIdLst[i]) EXCEPT !.sldIdLst = RemoveAt(@, i)], i - 1, n)

\* base64.b64encode(pptx_buffer.getvalue()).decode('utf-8') of the saved
\* package: a non-empty string that holds the presentation
Encoded(prs) ==
  [none |-> FALSE,
   package |-> [prs EXCEPT !.slide = [r \in 1..Len(prs.slide) |->
                                       IF r \in prs.rels THEN prs.slide[r]
                                       ELSE [prs.slide[r] EXCEPT !.origin = "dropped"]]]]

\* PPTXExporter.create_presentation
create_presentation(config, slides, file) ==
  LET loaded == LoadTemplate(file)
      sized == [loaded.prs EXCEPT !.slide_width = Inches(1333),
                                  !.slide_height = Inches(750)]
      existing_slides == sized.sldIdLst
      filled == FillSlides(sized, config, existing_slides, slides, 1)
      trimmed == IF Len(existing_slides) > Len(slides)
                   THEN RemoveExcess(filled.prs, Len(existing_slides), Len(slides))
                   ELSE filled.prs
  IN IF loaded.raised THEN [raised |-> TRUE, error |-> "PackageNotFoundError", value |-> None]
     ELSE IF filled.raised THEN [raised |-> TRUE, error |-> "IndexError", value |-> None]
     ELSE [raised |-> FALSE, error |-> "", value |-> Encoded(trimmed)]

-----------------------------------------------------------------------------
(* Direct calls of the LLMClient methods, on every argument and every      *)
(* service behaviour within the bounds.                                    *)

NoEvent == [handler |-> "none"]

NoRet == [raised |-> FALSE, value |-> <<>>, requests |-> 0]

TopicArgs == {<<"a">>, <<"R", " ", "M">>}

NumSlidesArgs == (0 - 1)..(MaxReplyLen + 1)

TopicCalls ==
  {[fn |-> "generate_slide_topics", topic |-> t, num_slides |-> n,
    response |-> r, done |-> FALSE, ret |-> NoRet] :
      t \in TopicArgs, n \in NumSlidesArgs, r \in TopicResponses}

SlideTopicArgs ==
  {SlideTopic(<<"T1">>, <<"D1">>, 1), SlideTopic(<<"T2">>, <<"D2">>, 2)}

SlidesCalls ==
  UNION {{[fn |-> "generate_slides", slide_topics |-> ts, content_format |-> f,
           responses |-> rs, done |-> FALSE, ret |-> NoRet] :
             ts \in [1..k -> SlideTopicArgs], rs \in [1..k -> SlideResponses],
             f \in {BULLETED_LIST, PARAGRAPH}} : k \in 0..MaxTopics}

Placeholders == {Layout(t, b) : t, b \in BOOLEAN}

NoFile ==
  [exists |-> FALSE, readable |-> FALSE, slides |-> <<>>, layouts |-> <<>>,
   slide_width |-> 0, slide_height |-> 0]

\* what may be found at the template path: nothing, a file that does not
\* open, or a presentation with some slides and one or two layouts
TemplateFiles ==
  {NoFile, [NoFile EXCEPT !.exists = TRUE]}
  \cup {[exists |-> TRUE, readable |-> TRUE, slides |-> ss, layouts |-> ls,
         slide_width |-> w, slide_height |-> Inches(750)] :
           ss \in SeqsUpTo(Placeholders, MaxTplSlides),
           ls \in {<<Layout(TRUE, FALSE)>>}
                  \cup {<<Layout(TRUE, FALSE), l>> : l \in Placeholders},
           w \in {Inches(1000), Inches(1200)}}

Records(n) ==
  [i \in 1..n |-> SlideData(<<"title ", ToString(i)>>, <<"content ", ToString(i)>>)]

ExportCalls ==
  {[fn |-> "create_presentation",
    config |-> [PresentationConfig EXCEPT !.background_color = bg, !.text_color = tc],
    slides |-> Records(n), file |-> f, done |-> FALSE, ret |-> NoRet] :
      bg \in {WHITE, DARK_GRAY}, tc \in {BLACK, BLUE}, n \in 0..MaxSlides,
      f \in TemplateFiles}

InitExport ==
  /\ state = AppState
  /\ nEvents = 0
  /\ lastEvent = NoEvent
  /\ call \in ExportCalls

Call_create_presentation ==
  /\ call.fn = "create_presentation" /\ ~call.done
  /\ call' = [call EXCEPT !.done = TRUE,
                !.ret = create_presentation(call.config, call.slides, call.file)]
  /\ UNCHANGED <<state, nEvents, lastEvent>>

NextExport == Call_create_presentation

SpecExport == InitExport /\ [][NextExport]_vars

InitLLM ==
  /\ state = AppState
  /\ nEvents = 0
  /\ lastEvent = NoEvent
  /\ call \in TopicCalls \cup SlidesCalls

Call_generate_slide_topics ==
  /\ call.fn = "generate_slide_topics" /\ ~call.done
  /\ call' = [call EXCEPT !.done = TRUE,
                !.ret = generate_slide_topics(call.topic, call.num_slides, call.response)]
  /\ UNCHANGED <<state, nEvents, lastEvent>>

Call_generate_slides ==
  /\ call.fn = "generate_slides" /\ ~call.done
  /\ call' = [call EXCEPT !.done = TRUE,
                !.ret = generate_slides(call.slide_topics, call.content_format,
                                        call.responses)]
  /\ UNCHANGED <<state, nEvents, lastEvent>>

NextLLM == Call_generate_slide_topics \/ Call_generate_slides

SpecLLM == InitLLM /\ [][NextLLM]_vars

Returned(fn) == call.fn = fn /\ call.done

-----------------------------------------------------------------------------
(* Event handlers. Each takes the event's payload and maps the AppState to *)
(* the AppState the handler leaves; Handle records the event delivered.    *)
(* on_use_uploaded_content is bound to no component and never runs.        *)

Event(handler, value) == [handler |-> handler, value |-> value]

Handle(handler, value, new_state) ==
  /\ nEvents < MaxEvents
  /\ nEvents' = nEvents + 1
  /\ state' = new_state
  /\ lastEvent' = Event(handler, value)
  /\ UNCHANGED call

\* config.topic[:30].replace(' ', '_').replace('/', '_').replace('\\', '_')
TopicPrefixLen == 30

topic_clean(topic) ==
  Replace(Replace(Replace(Prefix(topic, TopicPrefixLen), " ", "_"), "/", "_"), "\\", "_")

Filename(topic) == <<"presentation_">> \o topic_clean(topic) \o <<".pptx">>

on_topic_change(st, value) ==
  [st EXCEPT !.config.topic = value, !.show_topic_breakdown = FALSE,
             !.slide_topics = <<>>]

\* a plausible slip: the except branch leaves the value as it was
on_num_slides_change_keep(st, value) ==
  [st EXCEPT !.config.num_slides = IF IntOf(value).ok THEN IntOf(value).val ELSE @,
             !.show_topic_breakdown = FALSE, !.slide_topics = <<>>]

on_num_slides_change(st, value) ==
  [st EXCEPT !.config.num_slides = IF IntOf(value).ok THEN IntOf(value).val ELSE 5,
             !.show_topic_breakdown = FALSE, !.slide_topics = <<>>]

on_content_format_change(st, value) == [st EXCEPT !.config.content_format = value]

\* a plausible slip: a new background invalidates the generated deck
on_background_color_change_invalidates(st, value) ==
  [st EXCEPT !.config.background_color = value,
             !.generated_pptx = None, !.download_ready = FALSE]

on_background_color_change(st, value) == [st EXCEPT !.config.background_color = value]

on_text_color_change(st, value) == [st EXCEPT !.config.text_color = value]

on_audience_change(st, value) ==
  [st EXCEPT !.config.audience = value, !.show_topic_breakdown = FALSE,
             !.slide_topics = <<>>]

on_tone_change(st, value) ==
  [st EXCEPT !.config.tone = value, !.show_topic_breakdown = FALSE,
             !.slide_topics = <<>>]

on_scene_change(st, value) ==
  [st EXCEPT !.config.scene = value, !.show_topic_breakdown = FALSE,
             !.slide_topics = <<>>]

\* upload: the bytes decode as UTF-8 to upload.text, or decoding raises
on_file_upload(st, upload) ==
  IF upload.decodes
    THEN [st EXCEPT !.uploaded_file_content = upload.text,
                    !.config.topic = upload.text,
                    !.show_topic_breakdown = FALSE, !.slide_topics = <<>>,
                    !.error_message = <<CHECK_MARK, " File uploaded successfully!">>]
    ELSE [st EXCEPT !.error_message = <<"Error reading file: ", "UnicodeDecodeError">>]

\* the outline the handler assigns (the service call is commented out)
DemoTopics ==
  <<SlideTopic(<<"Introduction to Risk Management in Banking">>,
               <<"Overview of the importance of risk management in the banking sector, ...">>,
               1),
    SlideTopic(<<"Types of Risks in Banking: Understanding the Landscape">>,
               <<"In-depth exploration of credit, market, operational, and liquidity risks, ...">>,
               2)>>

\* the statements before the try block
ResetTopics(st) ==
  [st EXCEPT !.is_generating_topics = TRUE,
             !.error_message = <<>>,
             !.slide_topics = <<>>,
             !.show_topic_breakdown = FALSE]

\* a plausible slip: the finally clause is missing
GenerateTopicsBodyKeepsFlag(st) ==
  [st EXCEPT !.slide_topics = DemoTopics,
             !.show_topic_breakdown = TRUE]

\* the try block and its finally clause; the service call is commented out
\* and the assignments of the try block raise nothing
GenerateTopicsBody(st) ==
  [st EXCEPT !.slide_topics = DemoTopics,
             !.show_topic_breakdown = TRUE,
             !.is_generating_topics = FALSE]

\* a plausible slip: the flag is set before the topic is validated
on_generate_topics_flag_first(st) ==
  IF Strip(st.config.topic) = <<>>
    THEN [st EXCEPT !.is_generating_topics = TRUE,
                    !.error_message = <<"Please enter a topic for your presentation.">>]
    ELSE GenerateTopicsBody(ResetTopics(st))

on_generate_topics(st) ==
  IF Strip(st.config.topic) = <<>>
    THEN [st EXCEPT !.error_message = <<"Please enter a topic for your presentation.">>]
    ELSE GenerateTopicsBody(ResetTopics(st))

\* a plausible slip: only the upper bound is tested, and a negative index
\* counts from the end of the list
on_slide_topic_change_from_end(st, index, value) ==
  IF index < Len(st.slide_topics)
    THEN IF index >= 0
           THEN [st EXCEPT !.slide_topics[index + 1].title = value]
           ELSE IF Len(st.slide_topics) + index >= 0
             THEN [st EXCEPT !.slide_topics[Len(st.slide_topics) + index + 1].title = value]
             ELSE st
    ELSE st

\* index is the 0-based position the input was rendered for
on_slide_topic_change(st, index, value) ==
  IF 0 <= index /\ index < Len(st.slide_topics)
    THEN [st EXCEPT !.slide_topics[index + 1].title = value]
    ELSE st

on_slide_description_change(st, index, value) ==
  IF 0 <= index /\ index < Len(st.slide_topics)
    THEN [st EXCEPT !.slide_topics[index + 1].description = value]
    ELSE st

\* the slides the handler assigns (the service call is replaced by these)
DemoSlides ==
  <<SlideData(<<"Introduction to Risk Management in Banking">>,
              <<BULLET, " Key point 1 about ",
                "Introduction to Risk Management in Banking",
                "\n", BULLET, " Important aspect to consider",
                "\n", BULLET, " Benefits and advantages",
                "\n", BULLET, " Future implications">>),
    SlideData(<<"Types of Risks in Banking: Understanding the Landscape">>,
              <<BULLET, " Key point 1 about ",
                "Types of Risks in Banking: Understanding the Landscape",
                "\n", BULLET, " Important aspect to consider",
                "\n", BULLET, " Benefits and advantages",
                "\n", BULLET, " Future implications">>)>>

\* a plausible slip: the previous deck is not reset before generating
ResetGenerationKeepsDeck(st) ==
  [st EXCEPT !.is_generating = TRUE, !.error_message = <<>>, !.slides = <<>>]

\* a plausible slip: the download state is not reset with the deck
ResetGenerationKeepsReady(st) ==
  [st EXCEPT !.is_generating = TRUE, !.error_message = <<>>, !.slides = <<>>,
             !.generated_pptx = None]

\* the statements before the try block
ResetGeneration(st) ==
  [st EXCEPT !.is_generating = TRUE, !.error_message = <<>>, !.slides = <<>>,
             !.generated_pptx = None, !.download_ready = FALSE]

\* the try block with its except and finally clauses; file is what
\* create_presentation finds at the template path
GenerateSlidesBody(st, file) ==
  LET s1 == [st EXCEPT !.slides = DemoSlides]
      made == create_presentation(s1.config, s1.slides, file)
  IN IF made.raised
       THEN [s1 EXCEPT !.error_message = <<"Error generating slides: ", made.error>>,
                       !.is_generating = FALSE]
       ELSE IF made.value.none
         THEN [s1 EXCEPT !.generated_pptx = made.value, !.is_generating = FALSE]
         ELSE [s1 EXCEPT !.generated_pptx = made.value,
                         !.download_filename = Filename(s1.config.topic),
                         !.download_ready = TRUE,
                         !.error_message =
                           <<CHECK_MARK, " Presentation generated successfully!">>,
                         !.is_generating = FALSE]

on_generate_slides(st, file) ==
  IF st.slide_topics = <<>>
    THEN [st EXCEPT !.error_message = <<"Please generate slide topics first.">>]
    ELSE GenerateSlidesBody(ResetGeneration(st), file)

\* a plausible slip: the message is written without testing generated_pptx
on_download_pptx_unguarded(st) ==
  [st EXCEPT !.download_filename = Filename(st.config.topic),
             !.download_ready = TRUE,
             !.error_message = <<CHECK_MARK, " '">> \o Filename(st.config.topic)
                                 \o <<"' ready for download.">>]

on_download_pptx(st) ==
  IF st.generated_pptx.none THEN st
  ELSE [st EXCEPT !.download_filename = Filename(st.config.topic),
                  !.download_ready = TRUE,
                  !.error_message = <<CHECK_MARK, " '">> \o Filename(st.config.topic)
                                      \o <<"' ready for download.">>]

-----------------------------------------------------------------------------
(* The UI: any handler may run next, with any payload of the input sets *)

TopicInputs == {<<" ">>, <<"a", "\n">>}
NumInputs == {<<"0">>, <<"3">>, <<"x">>}
FormatInputs == {BULLETED_LIST, PARAGRAPH}
BackgroundInputs == {WHITE, DARK_GRAY}
TextColorInputs == {BLACK, BLUE}
AudienceInputs == {"colleagues", "public"}
ToneInputs == {"professional", "friendly"}
SceneInputs == {"general_scene", "solution"}
Uploads == {[decodes |-> FALSE, text |-> <<>>], [decodes |-> TRUE, text |-> <<"b", "\t">>]}
EditInputs == {<<"X">>}
EditIndexes == (0 - 1)..2

\* template files the UI runs meet: none, one that does not open, a one-slide
\* template with a single layout, a three-slide template
UITemplateFiles ==
  {NoFile, [NoFile EXCEPT !.exists = TRUE],
   [exists |-> TRUE, readable |-> TRUE, slides |-> <<Layout(TRUE, FALSE)>>,
    layouts |-> <<Layout(TRUE, FALSE)>>,
    slide_width |-> Inches(1000), slide_height |-> Inches(750)],
   [exists |-> TRUE, readable |-> TRUE,
    slides |-> <<Layout(TRUE, FALSE), Layout(TRUE, TRUE), Layout(FALSE, FALSE)>>,
    layouts |-> <<Layout(TRUE, FALSE), Layout(TRUE, TRUE)>>,
    slide_width |-> Inches(1000), slide_height |-> Inches(750)]}

NoCall == [fn |-> "none", done |-> FALSE]

Init ==
  /\ state = AppState
  /\ nEvents = 0
  /\ lastEvent = NoEvent
  /\ call = NoCall

TopicChange ==
  \E v \in TopicInputs : Handle("on_topic_change", v, on_topic_change(state, v))

NumSlidesChange ==
  \E v \in NumInputs : Handle("on_num_slides_change", v, on_num_slides_change(state, v))

ContentFormatChange ==
  \E v \in FormatInputs :
    Handle("on_content_format_change", v, on_content_format_change(state, v))

BackgroundColorChange ==
  \E v \in BackgroundInputs :
    Handle("on_background_color_change", v, on_background_color_change(state, v))

TextColorChange ==
  \E v \in TextColorInputs :
    Handle("on_text_color_change", v, on_text_color_change(state, v))

AudienceChange ==
  \E v \in AudienceInputs : Handle("on_audience_change", v, on_audience_change(state, v))

ToneChange ==
  \E v \in ToneInputs : Handle("on_tone_change", v, on_tone_change(state, v))

SceneChange ==
  \E v \in SceneInputs : Handle("on_scene_change", v, on_scene_change(state, v))

FileUpload ==
  \E u \in Uploads : Handle("on_file_upload", u, on_file_upload(state, u))

GenerateTopics == Handle("on_generate_topics", <<>>, on_generate_topics(state))

SlideTopicChange ==
  \E i \in EditIndexes, v \in EditInputs :
    Handle("on_slide_topic_change", <<i, v>>, on_slide_topic_change(state, i, v))

SlideDescriptionChange ==
  \E i \in EditIndexes, v \in EditInputs :
    Handle("on_slide_description_change", <<i, v>>,
           on_slide_description_change(state, i, v))

GenerateSlides ==
  \E f \in UITemplateFiles :
    Handle("on_generate_slides", f, on_generate_slides(state, f))

DownloadPptx == Handle("on_download_pptx", <<>>, on_download_pptx(state))

Next ==
  \/ TopicChange \/ NumSlidesChange \/ ContentFormatChange
  \/ BackgroundColorChange \/ TextColorChange
  \/ AudienceChange \/ ToneChange \/ SceneChange
  \/ FileUpload \/ GenerateTopics
  \/ SlideTopicChange \/ SlideDescriptionChange
  \/ GenerateSlides \/ DownloadPptx

Spec == Init /\ [][Next]_vars

\* the slide-count field alone, with every string that can be typed into it
NumChars == {"0", "7", "-", " ", "x", "_"}

NumSlidesTyped ==
  \E v \in SeqsUpTo(NumChars, MaxInputLen) :
    Handle("on_num_slides_change", v, on_num_slides_change(state, v))

NextForm == NumSlidesTyped

SpecForm == Init /\ [][NextForm]_vars

-----------------------------------------------------------------------------
(* Claims about LLMClient, checked under SpecLLM *)

\* C2: when the service call fails, generate_slide_topics(topic, slideCount)
\* with slideCount >= 1 returns exactly slideCount entries, entry i (1-indexed)
\* titled "<topic> - Topic i", described "This slide will cover aspect i of
\* <topic>" and with order = i.
C2_MockOutline ==
  (Returned("generate_slide_topics") /\ call.response.kind \in FailureKinds
     /\ call.num_slides >= 1)
  => /\ ~call.ret.raised
     /\ Len(call.ret.value) = call.num_slides
     /\ \A i \in 1..call.num_slides :
          /\ call.ret.value[i].title = call.topic \o <<" - Topic ", ToString(i)>>
          /\ call.ret.value[i].description =
               <<"This slide will cover aspect ", ToString(i), " of ">> \o call.topic
          /\ call.ret.value[i].order = i

C2_Witness ==
  /\ Returned("generate_slide_topics")
  /\ call.response.kind = "network_error"
  /\ call.num_slides = 2
  /\ call.ret.value[2].order = 2

C3_ItemFailed(r) ==
  r.kind \in FailureKinds \/ ~r.is_object \/ ~r.has_title \/ ~r.has_content

C3_Placeholder(t, f) ==
  IF f = BULLETED_LIST
    THEN SlideData(t.title,
           <<BULLET, " Key point 1 about ">> \o t.title
           \o <<"\n", BULLET, " Important aspect to consider",
                "\n", BULLET, " Benefits and advantages",
                "\n", BULLET, " Future implications">>)
    ELSE SlideData(t.title,
           <<"This slide covers ">> \o t.description
           \o <<". ", "We'll explore the key concepts and their practical applications in this context.">>)

\* C3: generate_slides returns exactly one SlideData per input SlideTopic, in
\* the same order, for every pattern of per-item failures; a failed item j
\* yields the placeholder record of topic j, every other item carries the
\* title and content the service returned for it.
C3_OnePerTopic ==
  Returned("generate_slides")
  => /\ ~call.ret.raised
     /\ Len(call.ret.value) = Len(call.slide_topics)
     /\ \A i \in 1..Len(call.slide_topics) :
          IF C3_ItemFailed(call.responses[i])
            THEN call.ret.value[i] =
                   C3_Placeholder(call.slide_topics[i], call.content_format)
            ELSE /\ call.ret.value[i].title = call.responses[i].title
                 /\ call.ret.value[i].content = call.responses[i].content

C3_Witness ==
  /\ Returned("generate_slides")
  /\ Len(call.slide_topics) = 2
  /\ call.slide_topics[1] # call.slide_topics[2]
  /\ call.responses[1].kind = "network_error"
  /\ ~C3_ItemFailed(call.responses[2])
  /\ call.ret.value[1].title = call.slide_topics[1].title
  /\ call.ret.value[2].content = call.responses[2].content

C4_Outline == generate_mock_topics(call.topic, call.num_slides)

C4_IsArray == call.response.kind = "json" /\ call.response.json.type = "array"

C4_Items == call.response.json.items

\* an entry that is an object and lacks one of the listed requested fields
C4_EntryLacks(fields) ==
  /\ C4_IsArray
  /\ \E i \in 1..Len(C4_Items) :
       /\ C4_Items[i].is_object
       /\ \/ "title" \in fields /\ ~C4_Items[i].has_title
          \/ "description" \in fields /\ ~C4_Items[i].has_description
          \/ "order" \in fields /\ ~C4_Items[i].has_order

\* C4 as stated: on a network error, a non-success status, content that is
\* not valid JSON, or an entry missing one of title, description, order, the
\* result is the complete synthetic outline and nothing is raised.
C4_AsStated ==
  (Returned("generate_slide_topics")
     /\ (call.response.kind \in FailureKinds
           \/ C4_EntryLacks({"title", "description", "order"})))
  => /\ ~call.ret.raised
     /\ call.ret.value = C4_Outline

\* C4 as amended: generate_slide_topics never raises; on a network error, a
\* non-success status, content that is not valid JSON, or an entry missing
\* the title field the result is the complete synthetic outline; otherwise an
\* array of objects yields one topic per entry (a missing description reads
\* as "", a missing order as position + 1). The result is never a mix of
\* service entries and synthetic entries.
C4_FallbackOnFailure ==
  Returned("generate_slide_topics")
  => /\ ~call.ret.raised
     /\ (call.response.kind \in FailureKinds \/ C4_EntryLacks({"title"}))
          => call.ret.value = C4_Outline
     /\ \/ call.ret.value = C4_Outline
        \/ /\ C4_IsArray
           /\ Len(call.ret.value) = Len(C4_Items)
           /\ \A i \in 1..Len(C4_Items) :
                /\ C4_Items[i].is_object /\ C4_Items[i].has_title
                /\ call.ret.value[i].title = C4_Items[i].title
                /\ call.ret.value[i].description = C4_Items[i].description
                /\ call.ret.value[i].order =
                     (IF C4_Items[i].has_order THEN C4_Items[i].order ELSE i)
        \/ /\ call.response.kind = "json"
           /\ call.response.json.type = "empty_iterable"
           /\ call.ret.value = <<>>

C4_Witness ==
  /\ Returned("generate_slide_topics")
  /\ C4_IsArray /\ Len(C4_Items) = 2
  /\ C4_Items[1].is_object /\ C4_Items[1].has_title
  /\ C4_Items[2].is_object /\ ~C4_Items[2].has_title
  /\ call.num_slides = 2
  /\ call.ret.value = C4_Outline

-----------------------------------------------------------------------------
(* Claims about PPTXExporter.create_presentation, checked under SpecExport *)

\* the number of slides the template contributes (k)
TemplateCount == IF call.file.exists /\ call.file.readable THEN Len(call.file.slides) ELSE 0

\* the deck that a returned call encodes
Deck == call.ret.value.package

C7_TemplateFallback ==
  (Returned("create_presentation") /\ (~call.file.exists \/ ~call.file.readable))
  => /\ ~call.ret.raised
     /\ Len(Deck.sldIdLst) = Len(call.slides)
     /\ \A i \in 1..Len(call.slides) :
          /\ Deck.slide[Deck.sldIdLst[i]].origin = "layout"
          /\ Deck.slide[Deck.sldIdLst[i]].title = call.slides[i].title
          /\ Deck.slide[Deck.sldIdLst[i]].content = call.slides[i].content

C7_Witness ==
  /\ Returned("create_presentation")
  /\ call.file.exists /\ ~call.file.readable
  /\ Len(call.slides) = 2
  /\ ~call.ret.raised
  /\ Len(Deck.sldIdLst) = 2

-----------------------------------------------------------------------------
(* Claims about the event handlers *)

\* the last event was on_generate_slides and passed its validation
GenerationRan ==
  lastEvent.handler = "on_generate_slides" /\ state.slide_topics # <<>>

\* create_presentation raised in the last event
AssemblyRaised ==
  /\ GenerationRan
  /\ create_presentation(state.config, state.slides, lastEvent.value).raised

\* C5: when deck assembly raises in on_generate_slides, the handler ends with
\* is_generating = False, error_message a failure message, generated_pptx =
\* None and download_ready = False: no artifact is exposed, neither a partial
\* one nor the deck of an earlier successful generation. Checked under Spec.
C5_FailureExposesNothing ==
  AssemblyRaised
  => /\ ~state.is_generating
     /\ Len(state.error_message) = 2
     /\ state.error_message[1] = "Error generating slides: "
     /\ state.generated_pptx = None
     /\ ~state.download_ready

C5_Witness ==
  /\ AssemblyRaised
  /\ state.download_filename # <<>>
  /\ state.generated_pptx = None
  /\ state.error_message = <<"Error generating slides: ", "IndexError">>

\* C6 as stated: whenever on_generate_slides generates content, state.slides
\* has the length of state.slide_topics and slides[i] is a record generated
\* for slide_topics[i] (the service's answer to its request, or its
\* placeholder), for every outline reachable through outline generation and
\* user edits. Checked under Spec.
C6_AsStated ==
  GenerationRan
  => /\ Len(state.slides) = Len(state.slide_topics)
     /\ \A i \in 1..Len(state.slide_topics) :
          \E f \in {BULLETED_LIST, PARAGRAPH}, r \in SlideResponses :
            state.slides[i] = SlideFor(state.slide_topics[i], f, r)

\* C8 as stated: in every state reachable through the event handlers,
\* config.num_slides is a positive integer. Checked under Spec.
C8_AsStated == state.config.num_slides >= 1

\* C9: on_num_slides_change with an input that fails integer parsing sets
\* config.num_slides to 5, whatever it was before. Checked under SpecForm.
C9_ParseFailureDefault ==
  lastEvent.handler = "on_num_slides_change"
  => /\ ~IntOf(lastEvent.value).ok => state.config.num_slides = 5
     /\ (Strip(lastEvent.value) = <<>>
           \/ \E i \in 1..Len(lastEvent.value) : lastEvent.value[i] = "x")
          => state.config.num_slides = 5

C9_Witness ==
  /\ lastEvent.handler = "on_num_slides_change"
  /\ lastEvent.value = <<"7", "x">>
  /\ nEvents >= 2
  /\ state.config.num_slides = 5

\* the cleaning C10 describes: every whitespace and path-separator character
\* of the first 30 characters becomes '_'
C10_Clean(topic) ==
  [i \in 1..Len(Prefix(topic, 30)) |->
     IF topic[i] \in Whitespace \cup {"/", "\\"} THEN "_" ELSE topic[i]]

\* C10 as stated: the download filename is "presentation_" + c + ".pptx" with
\* c the first 30 characters of config.topic, whitespace and path separators
\* replaced by '_'; it contains no whitespace and no path separator.
\* Checked under Spec.
C10_AsStated ==
  (~state.generated_pptx.none
     /\ (GenerationRan \/ lastEvent.handler = "on_download_pptx"))
  => /\ state.download_filename =
          <<"presentation_">> \o C10_Clean(state.config.topic) \o <<".pptx">>
     /\ \A i \in 1..Len(state.download_filename) :
          state.download_filename[i] \notin Whitespace \cup {"/", "\\"}

-----------------------------------------------------------------------------
(* The LLMClient methods step by step: a request is sent to the service,   *)
(* its outcome is received, and the except block runs after a failure.     *)
(* call.requests logs the requests sent (for generate_slides, the number   *)
(* of the topic each was for), call.replies the outcomes received.         *)

TopicRuns ==
  {[fn |-> "generate_slide_topics", topic |-> t, num_slides |-> n,
    pc |-> "request", requests |-> <<>>, replies |-> <<>>,
    value |-> <<>>, done |-> FALSE] :
      t \in TopicArgs, n \in NumSlidesArgs}

SlidesRuns ==
  {[fn |-> "generate_slides", slide_topics |-> ts, content_format |-> f,
    i |-> 1, pc |-> IF ts = <<>> THEN "return" ELSE "request",
    requests |-> <<>>, replies |-> <<>>,
    value |-> <<>>, done |-> FALSE] :
      ts \in SeqsUpTo(SlideTopicArgs, MaxTopics), f \in {BULLETED_LIST, PARAGRAPH}}

InitService ==
  /\ state = AppState
  /\ nEvents = 0
  /\ lastEvent = NoEvent
  /\ call \in TopicRuns \cup SlidesRuns

\* a plausible slip: a failed request is sent once more before falling back
AfterFailureRetry(c) ==
  IF Len(c.requests) < 2 * (IF c.fn = "generate_slides" THEN c.i ELSE 1)
    THEN [c EXCEPT !.pc = "request"]
    ELSE [c EXCEPT !.pc = "except"]

\* an exception inside the try block: control goes to the except block
AfterFailure(c) == [c EXCEPT !.pc = "except"]

\* the end of one loop iteration of generate_slides
NextTopic(c) ==
  [c EXCEPT !.i = @ + 1,
            !.pc = IF c.i + 1 > Len(c.slide_topics) THEN "return" ELSE "request"]

\* client.chat.completions.create(...) is called
SendRequest ==
  /\ call.fn \in {"generate_slide_topics", "generate_slides"}
  /\ call.pc = "request"
  /\ call' = [call EXCEPT !.pc = "await",
                !.requests = Append(@, IF call.fn = "generate_slides" THEN call.i ELSE 1)]
  /\ UNCHANGED <<state, nEvents, lastEvent>>

\* the outline request ends: the try block returns the list or raises
ReceiveTopics ==
  /\ call.fn = "generate_slide_topics" /\ call.pc = "await"
  /\ \E r \in TopicResponses :
       LET got == [call EXCEPT !.replies = Append(@, r)]
       IN call' = IF TryTopics(r).raised THEN AfterFailure(got)
                  ELSE [got EXCEPT !.value = TryTopics(r).value,
                                   !.pc = "return"]
  /\ UNCHANGED <<state, nEvents, lastEvent>>

\* the except block of generate_slide_topics
ExceptTopics ==
  /\ call.fn = "generate_slide_topics" /\ call.pc = "except"
  /\ call' = [call EXCEPT !.value = generate_mock_topics(call.topic, call.num_slides),
                          !.pc = "return"]
  /\ UNCHANGED <<state, nEvents, lastEvent>>

\* a slide request ends: the try block appends the service's slide or raises
ReceiveSlide ==
  /\ call.fn = "generate_slides" /\ call.pc = "await"
  /\ \E r \in SlideResponses :
       LET got == [call EXCEPT !.replies = Append(@, r)]
       IN call' = IF SlideRaises(r) THEN AfterFailure(got)
                  ELSE NextTopic([got EXCEPT !.value =
                         Append(@, SlideFor(call.slide_topics[call.i],
                                            call.content_format, r))])
  /\ UNCHANGED <<state, nEvents, lastEvent>>

\* the except block of generate_slides: the placeholder of the current topic
ExceptSlide ==
  /\ call.fn = "generate_slides" /\ call.pc = "except"
  /\ call' = NextTopic([call EXCEPT !.value =
                Append(@, SlideData(call.slide_topics[call.i].title,
                                    FallbackContent(call.slide_topics[call.i],
                                                    call.content_format)))])
  /\ UNCHANGED <<state, nEvents, lastEvent>>

\* return
ReturnValue ==
  /\ call.fn \in {"generate_slide_topics", "generate_slides"}
  /\ call.pc = "return"
  /\ call' = [call EXCEPT !.pc = "returned", !.done = TRUE]
  /\ UNCHANGED <<state, nEvents, lastEvent>>

NextService ==
  \/ SendRequest \/ ReceiveTopics \/ ExceptTopics
  \/ ReceiveSlide \/ ExceptSlide \/ ReturnValue

SpecService == InitService /\ [][NextService]_vars

-----------------------------------------------------------------------------
(* Claims about the requests LLMClient sends, checked under SpecService *)

C11_Failed(r) ==
  IF call.fn = "generate_slides" THEN C3_ItemFailed(r) ELSE TryTopics(r).raised

\* C11: no retry is ever attempted. One call of generate_slide_topics sends
\* at most one request; one call of generate_slides sends exactly one request
\* per input topic, in topic order; a failed request is followed by the
\* fallback for that outline or item, never by a second request for it.
C11_NoRetry ==
  /\ (call.fn = "generate_slide_topics" /\ "pc" \in DOMAIN call)
       => /\ Len(call.requests) <= 1
          /\ call.pc = "except"
               => /\ Len(call.replies) = 1
                  /\ C11_Failed(call.replies[1])
          /\ (call.done /\ C11_Failed(call.replies[1]))
               => call.value = generate_mock_topics(call.topic, call.num_slides)
  /\ (call.fn = "generate_slides" /\ "pc" \in DOMAIN call)
       => /\ \A j \in 1..Len(call.requests) : call.requests[j] = j
          /\ Len(call.requests) <= Len(call.slide_topics)
          /\ call.done => Len(call.requests) = Len(call.slide_topics)
          /\ call.pc = "except"
               => /\ Len(call.requests) = call.i
                  /\ C11_Failed(call.replies[call.i])
          /\ \A j \in 1..Len(call.value) :
               C11_Failed(call.replies[j])
                 => call.value[j] =
                      C3_Placeholder(call.slide_topics[j], call.content_format)

C11_Witness ==
  /\ call.fn = "generate_slides" /\ call.done
  /\ Len(call.slide_topics) = 2
  /\ call.replies[1].kind = "network_error"
  /\ call.replies[2].kind = "bad_status"
  /\ call.requests = <<1, 2>>

-----------------------------------------------------------------------------
(* Handler invocations running together: the server handles each event in  *)
(* a thread of its own and get_state() hands every thread the same global  *)
(* _state. An invocation of a generation handler takes two steps, the      *)
(* statements up to the try block and the try block itself; another        *)
(* thread may run between the two. call.pc is where each thread stands.    *)

MaxThreads == 2

Threads == 1..MaxThreads

InFlight(phase) == {t \in Threads : call.pc[t] = phase}

InitThreads ==
  /\ state = AppState
  /\ nEvents = 0
  /\ lastEvent = NoEvent
  /\ call = [fn |-> "threads", pc |-> [t \in Threads |-> "idle"], done |-> FALSE]

\* a handler that runs in one step
ThreadTopicChange ==
  \E t \in Threads, v \in TopicInputs :
    /\ call.pc[t] = "idle" /\ nEvents < MaxEvents
    /\ state' = on_topic_change(state, v)
    /\ nEvents' = nEvents + 1
    /\ lastEvent' = Event("on_topic_change", v)
    /\ UNCHANGED call

\* on_generate_topics up to the try block: return after a failed validation,
\* otherwise set the flag and clear the outline
EnterGenerateTopics ==
  \E t \in Threads :
    /\ call.pc[t] = "idle" /\ nEvents < MaxEvents
    /\ nEvents' = nEvents + 1
    /\ lastEvent' = Event("on_generate_topics", t)
    /\ IF Strip(state.config.topic) = <<>>
         THEN /\ state' = on_generate_topics(state)
              /\ UNCHANGED call
         ELSE /\ state' = ResetTopics(state)
              /\ call' = [call EXCEPT !.pc[t] = "topics"]

LeaveGenerateTopics ==
  \E t \in Threads :
    /\ call.pc[t] = "topics"
    /\ state' = GenerateTopicsBody(state)
    /\ call' = [call EXCEPT !.pc[t] = "idle"]
    /\ UNCHANGED <<nEvents, lastEvent>>

EnterGenerateSlides ==
  \E t \in Threads :
    /\ call.pc[t] = "idle" /\ nEvents < MaxEvents
    /\ nEvents' = nEvents + 1
    /\ lastEvent' = Event("on_generate_slides", t)
    /\ IF state.slide_topics = <<>>
         THEN /\ state' = on_generate_slides(state, NoFile)
              /\ UNCHANGED call
         ELSE /\ state' = ResetGeneration(state)
              /\ call' = [call EXCEPT !.pc[t] = "slides"]

LeaveGenerateSlides ==
  \E t \in Threads, f \in UITemplateFiles :
    /\ call.pc[t] = "slides"
    /\ state' = GenerateSlidesBody(state, f)
    /\ call' = [call EXCEPT !.pc[t] = "idle"]
    /\ UNCHANGED <<nEvents, lastEvent>>

NextThreads ==
  \/ ThreadTopicChange
  \/ EnterGenerateTopics \/ LeaveGenerateTopics
  \/ EnterGenerateSlides \/ LeaveGenerateSlides

SpecThreads == InitThreads /\ [][NextThreads]_vars

-----------------------------------------------------------------------------
(* Claims about concurrent handler invocations, checked under SpecThreads *)

\* C12 as stated: at most one invocation of on_generate_topics and at most
\* one of on_generate_slides is between setting its flag and clearing it
C12_AsStated ==
  call.fn = "threads"
    => /\ Cardinality(InFlight("topics")) <= 1
       /\ Cardinality(InFlight("slides")) <= 1

\* C12: the handlers set their in-progress flag on entry and clear it on
\* exit without ever testing it, so an in-progress flag is True only while
\* at least one invocation of its handler is in its generation phase, and
\* nothing limits how many invocations are in that phase together.
C12_FlagOnlyWhileInFlight ==
  call.fn = "threads"
    => /\ state.is_generating_topics => InFlight("topics") # {}
       /\ state.is_generating => InFlight("slides") # {}

C12_Witness ==
  /\ call.fn = "threads"
  /\ Cardinality(InFlight("topics")) = 2
  /\ state.is_generating_topics

-----------------------------------------------------------------------------
(* Claims about the assembled deck, checked under SpecExport *)

\* C13 as stated: every deck create_presentation returns, from a template
\* or from a blank presentation, has slide_width : slide_height = 16 : 9 in
\* the EMU integers the document stores
C13_AsStated ==
  (Returned("create_presentation") /\ ~call.ret.raised)
    => 9 * Deck.slide_width = 16 * Deck.slide_height


\* the slide at 1-based position p of the deck
DeckSlide(p) == Deck.slide[Deck.sldIdLst[p]]

DeckMade == Returned("create_presentation") /\ ~call.ret.raised

\* C14: for every record number p, the p-th template slide is reused when
\* the template has at least p slides, otherwise a slide is appended from
\* the layout at index 1; in the finished deck the slide at position p has
\* the title and the content of record p wherever it has the placeholder for
\* it, so deck order is record order.
C14_RecordOrder ==
  DeckMade =>
    \A p \in 1..Len(call.slides) :
      /\ Deck.sldIdLst[p] = p
      /\ p <= TemplateCount
           => /\ DeckSlide(p).origin = "template"
              /\ DeckSlide(p).has_title = call.file.slides[p].has_title
              /\ DeckSlide(p).has_body = call.file.slides[p].has_body
      /\ p > TemplateCount
           => /\ DeckSlide(p).origin = "layout"
              /\ DeckSlide(p).has_body =
                   (IF TemplateCount = 0 /\ ~(call.file.exists /\ call.file.readable)
                      THEN BlankPresentation.layouts[2].has_body
                      ELSE call.file.layouts[2].has_body)
      /\ DeckSlide(p).has_title => DeckSlide(p).title = call.slides[p].title
      /\ DeckSlide(p).has_body => DeckSlide(p).content = call.slides[p].content

C14_Witness ==
  /\ DeckMade
  /\ TemplateCount = 1 /\ Len(call.slides) = 2
  /\ DeckSlide(1).origin = "template" /\ DeckSlide(1).has_title /\ DeckSlide(1).has_body
  /\ DeckSlide(2).origin = "layout" /\ DeckSlide(2).has_body

\* C15: with k template slides and n < k records, exactly the template
\* slides number n+1..k are removed, slide-list entry and relationship both,
\* and the first n template slides stay in their original order.
C15_TrailingRemoved ==
  (Returned("create_presentation") /\ TemplateCount > Len(call.slides))
    => /\ ~call.ret.raised
       /\ Deck.sldIdLst = [p \in 1..Len(call.slides) |-> p]
       /\ Deck.rels = 1..Len(call.slides)
       /\ \A r \in 1..TemplateCount :
            Deck.slide[r].origin =
              (IF r <= Len(call.slides) THEN "template" ELSE "dropped")

C15_Witness ==
  /\ DeckMade
  /\ TemplateCount = 2 /\ Len(call.slides) = 1
  /\ Deck.slide[2].origin = "dropped"
  /\ Deck.sldIdLst = <<1>>

\* C16: every newly created slide has its background filled with
\* config.background_color; a reused template slide has it filled exactly
\* when the requested colour is not the default white, and otherwise keeps
\* the background the template gave it.
C16_Background ==
  DeckMade =>
    \A p \in 1..Len(call.slides) :
      /\ p > TemplateCount
           => DeckSlide(p).background = hex_to_rgb(call.config.background_color)
      /\ p <= TemplateCount
           => DeckSlide(p).background =
                (IF call.config.background_color # WHITE
                   THEN hex_to_rgb(call.config.background_color)
                   ELSE TemplateSlide(call.file.slides[p], p).background)

C16_Witness ==
  /\ DeckMade
  /\ TemplateCount = 1 /\ Len(call.slides) = 2
  /\ call.config.background_color = WHITE
  /\ DeckSlide(1).background = <<>>
  /\ DeckSlide(2).background = <<255, 255, 255>>

\* the reused template slides that have no placeholder with index 1
C17_Bare ==
  {p \in 1..Min(TemplateCount, Len(call.slides)) : ~call.file.slides[p].has_body}

\* C17: a reused template slide without a body placeholder gets no content
\* written and raises nothing (the only raise of an assembly is the missing
\* layout of a slide that has to be added); its title is still written when
\* it has a title placeholder, the records after it are still applied, and
\* it is one of the deck's n slides.
C17_NoBodyPlaceholder ==
  (Returned("create_presentation") /\ C17_Bare # {})
    => /\ call.ret.raised
            => (TemplateCount < Len(call.slides) /\ Len(call.file.layouts) < 2)
       /\ ~call.ret.raised
            => /\ Len(Deck.sldIdLst) = Len(call.slides)
               /\ \A p \in C17_Bare :
                    /\ DeckSlide(p).content = TemplateSlide(call.file.slides[p], p).content
                    /\ DeckSlide(p).content_font = Unset
                    /\ DeckSlide(p).has_title
                         => /\ DeckSlide(p).title = call.slides[p].title
                            /\ DeckSlide(p).title_font.size = TITLE_PT
                    /\ \A q \in (p + 1)..Len(call.slides) :
                         DeckSlide(q).has_body
                           => DeckSlide(q).content = call.slides[q].content

C17_Witness ==
  /\ DeckMade
  /\ TemplateCount = 2 /\ Len(call.slides) = 2
  /\ C17_Bare = {1}
  /\ DeckSlide(1).has_title /\ DeckSlide(1).title = call.slides[1].title
  /\ DeckSlide(1).content = <<"template body ", "1">>
  /\ DeckSlide(2).content = call.slides[2].content

-----------------------------------------------------------------------------
(* Claims about what the LLMClient methods return, checked under SpecLLM *)

C18_CountOf(text, token) == Cardinality({j \in DOMAIN text : text[j] = token})

\* the text after the first n tokens
C18_Rest(text, n) == SubSeq(text, n + 1, Len(text))

C18_Failed == {i \in 1..Len(call.slide_topics) : C3_ItemFailed(call.responses[i])}

\* C18: the record of a failed item has the topic's title. With the bulleted
\* format its content is four bullet lines, the first ending in the topic's
\* title and the other three the same for every topic; with the paragraph
\* format it is the opening words, the topic's description and a full stop,
\* and a second sentence that is the same for every topic. Which of the two
\* it is depends on content_format only, so it is the same for every failed
\* item of one call.
C18_PlaceholderShape ==
  Returned("generate_slides") =>
    \A i \in C18_Failed :
      LET topic == call.slide_topics[i]
          slide == call.ret.value[i]
      IN /\ slide.title = topic.title
         /\ call.content_format = BULLETED_LIST
              => /\ C18_CountOf(slide.content, BULLET) = 4
                 /\ C18_CountOf(slide.content, "\n") = 3
                 /\ slide.content[1] = BULLET
                 /\ SubSeq(slide.content, 3, 2 + Len(topic.title)) = topic.title
                 /\ slide.content[3 + Len(topic.title)] = "\n"
                 /\ \A j \in 1..3 :
                      C18_Rest(slide.content, 2 + Len(topic.title))[3 * j - 1] = BULLET
                 /\ \A k \in C18_Failed :
                      C18_Rest(call.ret.value[k].content,
                               2 + Len(call.slide_topics[k].title))
                        = C18_Rest(slide.content, 2 + Len(topic.title))
         /\ call.content_format # BULLETED_LIST
              => /\ C18_CountOf(slide.content, BULLET) = 0
                 /\ slide.content[1] = "This slide covers "
                 /\ SubSeq(slide.content, 2, 1 + Len(topic.description))
                      = topic.description
                 /\ Len(slide.content) = Len(topic.description) + 3
                 /\ slide.content[Len(topic.description) + 2] = ". "
                 /\ \A k \in C18_Failed :
                      C18_Rest(call.ret.value[k].content,
                               1 + Len(call.slide_topics[k].description))
                        = C18_Rest(slide.content, 1 + Len(topic.description))

C18_Witness ==
  /\ Returned("generate_slides")
  /\ call.content_format = PARAGRAPH
  /\ C18_Failed = {1, 2}
  /\ call.slide_topics[1] # call.slide_topics[2]
  /\ call.responses[2].kind = "not_json"
  /\ call.ret.value[1].content[2] = "D1"
  /\ call.ret.value[2].content[2] = "D2"

\* the reply is an array whose entries are all objects with a title
C20_Success ==
  /\ C4_IsArray
  /\ \A i \in 1..Len(C4_Items) : C4_Items[i].is_object /\ C4_Items[i].has_title

\* C20: when the reply is an array of well-formed entries,
\* generate_slide_topics returns one SlideTopic per entry, entry i at
\* position i whatever the order fields say, with the entry's order when it
\* has one and its 1-based position otherwise; the length is the reply's,
\* whatever num_slides was.
C20_ResponseOrder ==
  (Returned("generate_slide_topics") /\ C20_Success)
    => /\ Len(call.ret.value) = Len(C4_Items)
       /\ \A i \in 1..Len(C4_Items) :
            /\ call.ret.value[i].title = C4_Items[i].title
            /\ call.ret.value[i].order =
                 (IF C4_Items[i].has_order THEN C4_Items[i].order ELSE i)

C20_Witness ==
  /\ Returned("generate_slide_topics") /\ C20_Success
  /\ Len(C4_Items) = 2 /\ call.num_slides = 3
  /\ C4_Items[1].title = <<"S1">> /\ C4_Items[2].title = <<"S2">>
  /\ C4_Items[1].has_order /\ ~C4_Items[2].has_order
  /\ call.ret.value[1].order = 7 /\ call.ret.value[2].order = 2
  /\ call.ret.value[1].title = <<"S1">>

-----------------------------------------------------------------------------
(* Claims about the status message, checked under Spec *)

\* error_message.startswith of the success marker
C19_Marked(message) == message # <<>> /\ message[1] = CHECK_MARK

\* the step is one run of handler h
C19_Ran(h) == nEvents' = nEvents + 1 /\ lastEvent'.handler = h

\* C19: whenever a handler writes a status message, the message starts with
\* the success marker exactly when the handler's operation succeeded. After
\* on_file_upload it is marked iff the file decoded; after on_generate_slides
\* iff there were slide topics and the deck was assembled without an
\* exception, and then the deck is stored and ready; on_download_pptx writes
\* a marked message when a deck is stored and nothing at all otherwise; the
\* validation messages and the messages of caught exceptions are non-empty
\* and unmarked. (A successful on_generate_topics writes no message: it
\* leaves error_message empty.)
C19_MarkerIffSuccess ==
  [][/\ C19_Ran("on_file_upload")
          => /\ state'.error_message # <<>>
             /\ C19_Marked(state'.error_message) <=> lastEvent'.value.decodes
             /\ C19_Marked(state'.error_message)
                  => state'.uploaded_file_content = lastEvent'.value.text
     /\ C19_Ran("on_generate_slides")
          => /\ state'.error_message # <<>>
             /\ C19_Marked(state'.error_message)
                  <=> /\ state.slide_topics # <<>>
                      /\ ~create_presentation(state.config, DemoSlides,
                                              lastEvent'.value).raised
             /\ C19_Marked(state'.error_message)
                  => /\ ~state'.generated_pptx.none
                     /\ state'.download_ready
                     /\ ~state'.is_generating
     /\ C19_Ran("on_download_pptx")
          => IF state.generated_pptx.none
               THEN state' = state
               ELSE /\ C19_Marked(state'.error_message)
                    /\ state'.download_ready
     /\ C19_Ran("on_generate_topics")
          => /\ ~C19_Marked(state'.error_message)
             /\ state'.error_message # <<>> <=> Strip(state.config.topic) = <<>>
    ]_vars

C19_Witness ==
  /\ lastEvent.handler = "on_generate_slides"
  /\ state.error_message = <<"Error generating slides: ", "IndexError">>
  /\ state.generated_pptx.none
  /\ state.uploaded_file_content # <<>>

-----------------------------------------------------------------------------
(* Claims about what the handlers leave alone, checked under Spec *)

\* C21: a generation request that fails validation changes error_message
\* and nothing else. on_generate_topics with an empty or whitespace-only
\* topic and on_generate_slides with no slide topics write their validation
\* message and leave every other field of the state as it was: slide_topics,
\* show_topic_breakdown, slides, generated_pptx, download_ready and both
\* in-progress flags, so no generation has started. Stated of the handler
\* run from every state the UI reaches.
C21_ValidationFrame ==
  /\ Strip(state.config.topic) = <<>>
       => on_generate_topics(state)
            = [state EXCEPT !.error_message =
                 <<"Please enter a topic for your presentation.">>]
  /\ state.slide_topics = <<>>
       => \A f \in UITemplateFiles :
            on_generate_slides(state, f)
              = [state EXCEPT !.error_message =
                   <<"Please generate slide topics first.">>]

C21_Witness ==
  /\ lastEvent.handler = "on_generate_slides"
  /\ state.error_message = <<"Please generate slide topics first.">>
  /\ state.slide_topics = <<>>
  /\ state.slides # <<>>
  /\ ~state.generated_pptx.none /\ state.download_ready
  /\ ~state.is_generating /\ ~state.is_generating_topics


\* C22: between handler invocations download_ready is True exactly when
\* generated_pptx is not None: no download is marked ready without a deck,
\* no stored deck is left not ready, and therefore a run of on_download_pptx
\* never changes download_ready.
C22_ReadyIffDeck ==
  /\ state.download_ready <=> ~state.generated_pptx.none
  /\ on_download_pptx(state).download_ready = state.download_ready

C22_Witness ==
  /\ lastEvent.handler = "on_download_pptx"
  /\ state.download_ready /\ ~state.generated_pptx.none
  /\ state.error_message[1] = CHECK_MARK
  /\ state.error_message[2] = " '"


\* edited is the state with at most field f of the topic at 0-based
\* position index changed, and the state itself when index is out of range
C23_Edited(edited, index, f) ==
  /\ Len(edited.slide_topics) = Len(state.slide_topics)
  /\ \A i \in 1..Len(state.slide_topics) :
       /\ edited.slide_topics[i].order = state.slide_topics[i].order
       /\ (i # index + 1 \/ f # "title")
            => edited.slide_topics[i].title = state.slide_topics[i].title
       /\ (i # index + 1 \/ f # "description")
            => edited.slide_topics[i].description = state.slide_topics[i].description
  /\ (index < 0 \/ index >= Len(state.slide_topics)) => edited = state

\* C23: after any sequence of UI events show_topic_breakdown = True implies
\* that slide_topics is non-empty, so whenever a handler leaves slide_topics
\* empty it leaves show_topic_breakdown False; an edit of a topic's title or
\* description keeps the length of slide_topics, every order field and every
\* other title and description, and changes nothing at all when its index is
\* out of range.
C23_BreakdownHasTopics ==
  /\ state.show_topic_breakdown => state.slide_topics # <<>>
  /\ \A index \in EditIndexes, value \in EditInputs :
       /\ C23_Edited(on_slide_topic_change(state, index, value), index, "title")
       /\ C23_Edited(on_slide_description_change(state, index, value), index,
                     "description")
       /\ (0 <= index /\ index < Len(state.slide_topics))
            => /\ on_slide_topic_change(state, index, value)
                      .slide_topics[index + 1].title = value
               /\ on_slide_description_change(state, index, value)
                      .slide_topics[index + 1].description = value

C23_Witness ==
  /\ lastEvent.handler = "on_slide_topic_change"
  /\ lastEvent.value[1] = 1
  /\ state.show_topic_breakdown
  /\ Len(state.slide_topics) = 2
  /\ state.slide_topics[1].title = DemoTopics[1].title
  /\ state.slide_topics[2].title = <<"X">>
  /\ state.slide_topics[2].order = 2


C24_Ran(handlers) == nEvents' = nEvents + 1 /\ lastEvent'.handler \in handlers

C24_Discarded == state'.slide_topics = <<>> /\ ~state'.show_topic_breakdown

C24_OutlineKept ==
  /\ state'.slide_topics = state.slide_topics
  /\ state'.show_topic_breakdown = state.show_topic_breakdown

C24_DeckKept ==
  /\ state'.slides = state.slides
  /\ state'.generated_pptx = state.generated_pptx
  /\ state'.download_ready = state.download_ready
  /\ state'.download_filename = state.download_filename

C24_ConfigHandlers ==
  {"on_topic_change", "on_num_slides_change", "on_audience_change",
   "on_tone_change", "on_scene_change", "on_file_upload",
   "on_content_format_change", "on_background_color_change",
   "on_text_color_change"}

\* C24 as stated: a change of topic, slide count, audience, tone or scene
\* and every file upload discard the outline; a change of content format,
\* background colour or text colour keeps it; none of the nine handlers
\* changes slides, generated_pptx, download_ready or download_filename
C24_AsStated ==
  [][/\ C24_Ran({"on_topic_change", "on_num_slides_change", "on_audience_change",
                 "on_tone_change", "on_scene_change", "on_file_upload"})
          => C24_Discarded
     /\ C24_Ran({"on_content_format_change", "on_background_color_change",
                 "on_text_color_change"})
          => C24_OutlineKept
     /\ C24_Ran(C24_ConfigHandlers) => C24_DeckKept
    ]_vars

\* C24: a change of topic, slide count, audience, tone or scene discards
\* the outline (slide_topics = [], show_topic_breakdown = False), and so
\* does the upload of a file that decodes as UTF-8; an upload that fails to
\* decode keeps the outline, as does a change of content format, background
\* colour or text colour. None of the nine handlers changes slides,
\* generated_pptx, download_ready or download_filename, so a deck generated
\* earlier stays downloadable under its old filename.
C24_ConfigFrame ==
  [][/\ C24_Ran({"on_topic_change", "on_num_slides_change", "on_audience_change",
                 "on_tone_change", "on_scene_change"})
          => C24_Discarded
     /\ C24_Ran({"on_file_upload"})
          => IF lastEvent'.value.decodes THEN C24_Discarded ELSE C24_OutlineKept
     /\ C24_Ran({"on_content_format_change", "on_background_color_change",
                 "on_text_color_change"})
          => C24_OutlineKept
     /\ C24_Ran(C24_ConfigHandlers) => C24_DeckKept
    ]_vars

C24_Witness ==
  /\ lastEvent.handler = "on_file_upload"
  /\ lastEvent.value.decodes
  /\ state.slide_topics = <<>> /\ ~state.show_topic_breakdown
  /\ ~state.generated_pptx.none /\ state.download_ready
  /\ state.download_filename # Filename(state.config.topic)

====
